---- MODULE Spec2Model ----
(***************************************************************************)
(* A model of trycat (src/trycat.ts): the Result type with its two         *)
(* variants Ok and Err, their combinators and the accessors that may      *)
(* throw, the constructors ok and err, and the adapters trys and tryp.     *)
(*                                                                         *)
(* Objects created with `new Ok(..)` / `new Err(..)` live in `heap`; a     *)
(* reference is the index of the object, so two Results with the same      *)
(* payload are still two objects.  A JavaScript value is a tagged record.  *)
(***************************************************************************)
EXTENDS Integers, Sequences, FiniteSets, TLC

VARIABLES heap, self, last, promise, thenPromise, catchPromise, ran

vars == <<heap, self, last, promise, thenPromise, catchPromise, ran>>

(* ------------------------------ bounds --------------------------------- *)

\* The number of Ok/Err objects a run may create.
MaxObjects == 2

(* --------------------------- JavaScript values ------------------------- *)

Undefined == [t |-> "undefined"]
Num(n) == [t |-> "number", n |-> n]
Str(s) == [t |-> "string", s |-> s]
Bool(b) == [t |-> "boolean", b |-> b]
Ref(i) == [t |-> "ref", id |-> i]

\* `new Error(message)`: a host error object carrying a message.
ErrorObj(message) == [t |-> "Error", message |-> message]

\* An argument left out of a call.
Omitted == [t |-> "omitted"]

\* The value a parameter is bound to: an omitted argument reads as undefined.
Param(a) == IF a = Omitted THEN Undefined ELSE a

\* The payloads the callers use: the falsy values undefined, 0, "", false,
\* and two truthy ones.
Prim == {Undefined, Num(0), Num(42), Str(""), Str("X"), Bool(FALSE)}

\* The messages the callers pass to expect / expectErr.
Msgs == {Str("msg"), Str("")}

\* JavaScript truthiness, as tested by `value ? a : b`.
Truthy(v) == v \notin {Undefined, Num(0), Str(""), Bool(FALSE)}

\* String(v): the text a template literal `${v}` gives for a value.
JsString(v) ==
    CASE v.t = "undefined" -> "undefined"
      [] v.t = "number" -> ToString(v.n)
      [] v.t = "string" -> v.s
      [] v.t = "boolean" -> IF v.b THEN "true" ELSE "false"

\* What a callback without parameters does when called: it returns a value or
\* throws a payload.
Fns == [kind : {"return", "throw"}, val : Prim]

(* ------------------------- completions of a call ----------------------- *)

\* A completion holds the heap the call leaves and `calls`, the callbacks the
\* call invoked, in order.
Return(h, v) == [kind |-> "return", val |-> v, heap |-> h, calls |-> <<>>]
Throw(h, v) == [kind |-> "throw", val |-> v, heap |-> h, calls |-> <<>>]

(* ------------------------------ class Ok ------------------------------- *)

\* constructor(public readonly value: T)
Ok(h, value) ==
    Return(Append(h, [tag |-> "Ok", value |-> value]), Ref(Len(h) + 1))

Ok_isOk(h, this) == Return(h, Bool(TRUE))

Ok_isErr(h, this) == Return(h, Bool(FALSE))

Ok_unwrap(h, this) == Return(h, h[this].value)

Ok_unwrapOr(h, this, def) == Return(h, h[this].value)

Ok_expect(h, this, msg) == Return(h, h[this].value)

Ok_unwrapErr_wrapped(h, this) == Throw(h, ErrorObj(JsString(h[this].value)))
\* throw this.value
Ok_unwrapErr(h, this) == Throw(h, h[this].value)

\* throw new Error(msg)
Ok_expectErr(h, this, msg) == Throw(h, ErrorObj(msg.s))

(* ------------------------------ class Err ------------------------------ *)

\* constructor(public readonly error: TErr)
Err(h, error) ==
    Return(Append(h, [tag |-> "Err", error |-> error]), Ref(Len(h) + 1))

Err_isOk_true(h, this) == Return(h, Bool(TRUE))
Err_isOk(h, this) == Return(h, Bool(FALSE))

Err_isErr(h, this) == Return(h, Bool(TRUE))

Err_unwrap_raw(h, this) == Throw(h, h[this].error)
\* throw new Error("Attempted to unwrap an Err value.")
Err_unwrap(h, this) == Throw(h, ErrorObj("Attempted to unwrap an Err value."))

Err_unwrapOr(h, this, def) == Return(h, def)

\* throw new Err(message): the thrown object is a new Err holding the message.
Err_expect(h, this, message) ==
    LET made == Err(h, message) IN Throw(made.heap, made.val)

Err_unwrapErr(h, this) == Return(h, h[this].error)

Err_expectErr(h, this, message) == Return(h, h[this].error)

(* --------------------------- free functions ---------------------------- *)

ok_truthy(h, value) == IF Truthy(value) THEN Ok(h, value) ELSE Ok(h, Undefined)
\* function ok<T>(value: T): Ok<T> { return new Ok(value) }
ok(h, value) == Ok(h, value)

\* function err<TErr>(error: TErr): Err<TErr> { return new Err(error) }
err(h, error) == Err(h, error)

trys_truthy(h, fn) ==
    IF fn.kind = "return"
    THEN IF Truthy(fn.val) THEN ok(h, fn.val) ELSE ok(h, Undefined)
    ELSE err(h, fn.val)
trys_wrapping(h, fn) ==
    IF fn.kind = "return" THEN ok(h, fn.val)
                          ELSE err(h, ErrorObj(JsString(fn.val)))
\* try { return ok(fn()) } catch (e) { return err(e) }
trys(h, fn) ==
    IF fn.kind = "return" THEN ok(h, fn.val) ELSE err(h, fn.val)

(* ------------------------------ callbacks ------------------------------ *)
(* A callback the caller passes is one of a few closures:                  *)
(*   id      x => x                  const   x => c                        *)
(*   throw   x => { throw p }        ok      x => ok(x)                    *)
(*   err     x => err(x)             ref     x => r, a Result made before  *)

\* The callbacks that return a plain value.
Mappers == {[kind |-> "id"],
            [kind |-> "const", val |-> Num(42)],
            [kind |-> "throw", val |-> Str("X")]}

\* The callbacks that return a Result, given the Results made so far.
ResultOps(h) == {[kind |-> "ok"], [kind |-> "err"],
                 [kind |-> "throw", val |-> Str("X")]}
                \cup {[kind |-> "ref", id |-> i] : i \in 1..Len(h)}

\* The default values the callers pass to mapOr.
Defaults == {Undefined, Num(0)}

\* What calling the closure f with x does.
Apply(h, f, x) ==
    CASE f.kind = "id" -> Return(h, x)
      [] f.kind = "const" -> Return(h, f.val)
      [] f.kind = "throw" -> Throw(h, f.val)
      [] f.kind = "ok" -> ok(h, x)
      [] f.kind = "err" -> err(h, x)
      [] f.kind = "ref" -> Return(h, Ref(f.id))

\* The call f(x) of the parameter named `role`, noted in the completion.
Invoke(h, role, f, x) ==
    LET r == Apply(h, f, x) IN
      [r EXCEPT !.calls = <<[role |-> role, arg |-> x,
                             kind |-> r.kind, val |-> r.val]>>]

\* The statement after a call that completed as r: a throw ends the method.
AndThenDo(r, o) == IF r.kind = "throw" THEN r ELSE [o EXCEPT !.calls = r.calls]

(* ------------------------ class Ok, the combinators -------------------- *)

\* f(this.value); return this
Ok_inspect(h, this, f) ==
    LET r == Invoke(h, "f", f, h[this].value) IN
      AndThenDo(r, Return(r.heap, Ref(this)))

Ok_inspectErr(h, this, f) == Return(h, Ref(this))

Ok_map_catching(h, this, mapper) ==
    LET r == Invoke(h, "mapper", mapper, h[this].value) IN
      IF r.kind = "throw"
      THEN [Err(r.heap, r.val) EXCEPT !.calls = r.calls]
      ELSE [Ok(r.heap, r.val) EXCEPT !.calls = r.calls]
Ok_map_inplace(h, this, mapper) ==
    LET r == Invoke(h, "mapper", mapper, h[this].value) IN
      AndThenDo(r, Return([r.heap EXCEPT ![this].value = r.val], Ref(this)))
\* return new Ok(mapper(this.value))
Ok_map(h, this, mapper) ==
    LET r == Invoke(h, "mapper", mapper, h[this].value) IN
      AndThenDo(r, Ok(r.heap, r.val))

\* return mapper(this.value)
Ok_mapOr(h, this, def, mapper) == Invoke(h, "mapper", mapper, h[this].value)

\* return mapper(this.value)
Ok_mapOrElse(h, this, errMapper, mapper) ==
    Invoke(h, "mapper", mapper, h[this].value)

Ok_mapErr(h, this, mapper) == Return(h, Ref(this))

Ok_or(h, this, other) == Return(h, Ref(this))

Ok_orElse(h, this, op) == Return(h, Ref(this))

Ok_and(h, this, other) == Return(h, other)

Ok_andThen_wrapped(h, this, op) ==
    LET r == Invoke(h, "op", op, h[this].value) IN
      AndThenDo(r, Ok(r.heap, r.val))
\* return op(this.value)
Ok_andThen(h, this, op) == Invoke(h, "op", op, h[this].value)

Ok_unwrapOrElse(h, this, op) == Return(h, h[this].value)

(* ------------------------ class Err, the combinators ------------------- *)

Err_inspect(h, this, f) == Return(h, Ref(this))

\* f(this.error); return this
Err_inspectErr(h, this, f) ==
    LET r == Invoke(h, "f", f, h[this].error) IN
      AndThenDo(r, Return(r.heap, Ref(this)))

Err_map_copy(h, this, mapper) == Err(h, h[this].error)
Err_map(h, this, mapper) == Return(h, Ref(this))

Err_mapOr_mapped(h, this, def, mapper) == Invoke(h, "mapper", mapper, def)
Err_mapOr(h, this, def, mapper) == Return(h, def)

\* return errMapper(this.error)
Err_mapOrElse(h, this, errMapper, mapper) ==
    Invoke(h, "errMapper", errMapper, h[this].error)

\* return new Err(mapper(this.error))
Err_mapErr(h, this, mapper) ==
    LET r == Invoke(h, "mapper", mapper, h[this].error) IN
      AndThenDo(r, Err(r.heap, r.val))

Err_or(h, this, other) == Return(h, other)

\* return op(this.error)
Err_orElse(h, this, op) == Invoke(h, "op", op, h[this].error)

Err_and(h, this, other) == Return(h, Ref(this))

Err_andThen(h, this, op) == Return(h, Ref(this))

\* return op(this.error)
Err_unwrapOrElse(h, this, op) == Invoke(h, "op", op, h[this].error)

(* ----------------------------- tryp's handlers ------------------------- *)

tryp_onFulfilled_throwing(h, value) ==
    LET made == ok(h, value) IN Throw(made.heap, made.val)
\* tryp: promise.then((value) => ok(value))
tryp_onFulfilled(h, value) == ok(h, value)

tryp_onRejected_rethrow(h, e) == Throw(h, e)
\* tryp: .catch((e) => err(e))
tryp_onRejected(h, e) == err(h, e)

(* ------------------------------ the state ------------------------------ *)

NoCall == [op |-> "none", this |-> 0, arg |-> Undefined,
           kind |-> "none", val |-> Undefined, calls |-> <<>>]

NoPromise == [state |-> "none", val |-> Undefined]
Pending == [state |-> "pending", val |-> Undefined]
Fulfilled(v) == [state |-> "fulfilled", val |-> v]
Rejected(r) == [state |-> "rejected", val |-> r]

Init ==
    /\ heap = <<>>
    /\ self = 0
    /\ last = NoCall
    /\ promise = NoPromise
    /\ thenPromise = NoPromise
    /\ catchPromise = NoPromise
    /\ ran = {}

\* The call `op` on receiver `this` with argument `arg` completed as `o`.
Done(op, this, arg, o) ==
    /\ heap' = o.heap
    /\ last' = [op |-> op, this |-> this, arg |-> arg,
                kind |-> o.kind, val |-> o.val, calls |-> o.calls]

IsOk(h, this) == h[this].tag = "Ok"

CanCreate == Len(heap) < MaxObjects

\* `ran` holds the handlers of the last tryp call that have run.
asyncVars == <<promise, thenPromise, catchPromise, ran>>

(* ------------------------ calls of the callers ------------------------- *)

\* const r = ok(v) / ok()
CallOk ==
    /\ CanCreate
    /\ \E a \in Prim \cup {Omitted} :
         LET o == ok(heap, Param(a)) IN
           /\ Done("ok", 0, a, o)
           /\ self' = o.val.id
    /\ UNCHANGED asyncVars

\* const r = err(e) / err()
CallErr ==
    /\ CanCreate
    /\ \E a \in Prim \cup {Omitted} :
         LET o == err(heap, Param(a)) IN
           /\ Done("err", 0, a, o)
           /\ self' = o.val.id
    /\ UNCHANGED asyncVars

\* const r = trys(fn)
CallTrys ==
    /\ CanCreate
    /\ \E fn \in Fns :
         LET o == trys(heap, fn) IN
           /\ Done("trys", 0, fn, o)
           /\ self' = IF o.kind = "return" THEN o.val.id ELSE self
    /\ UNCHANGED asyncVars

\* r.isOk()
CallIsOk ==
    /\ self # 0
    /\ Done("isOk", self, Undefined,
            IF IsOk(heap, self) THEN Ok_isOk(heap, self) ELSE Err_isOk(heap, self))
    /\ UNCHANGED <<self, asyncVars>>

\* r.isErr()
CallIsErr ==
    /\ self # 0
    /\ Done("isErr", self, Undefined,
            IF IsOk(heap, self) THEN Ok_isErr(heap, self) ELSE Err_isErr(heap, self))
    /\ UNCHANGED <<self, asyncVars>>

\* r.unwrap()
CallUnwrap ==
    /\ self # 0
    /\ Done("unwrap", self, Undefined,
            IF IsOk(heap, self) THEN Ok_unwrap(heap, self) ELSE Err_unwrap(heap, self))
    /\ UNCHANGED <<self, asyncVars>>

\* r.unwrapOr(def)
CallUnwrapOr ==
    /\ self # 0
    /\ \E def \in Prim :
         Done("unwrapOr", self, def,
              IF IsOk(heap, self) THEN Ok_unwrapOr(heap, self, def)
                                  ELSE Err_unwrapOr(heap, self, def))
    /\ UNCHANGED <<self, asyncVars>>

\* r.expect(message): on an Err the thrown object is a new Err.
CallExpect ==
    /\ self # 0
    /\ IsOk(heap, self) \/ CanCreate
    /\ \E m \in Msgs :
         Done("expect", self, m,
              IF IsOk(heap, self) THEN Ok_expect(heap, self, m)
                                  ELSE Err_expect(heap, self, m))
    /\ UNCHANGED <<self, asyncVars>>

\* r.unwrapErr()
CallUnwrapErr ==
    /\ self # 0
    /\ Done("unwrapErr", self, Undefined,
            IF IsOk(heap, self) THEN Ok_unwrapErr(heap, self)
                                ELSE Err_unwrapErr(heap, self))
    /\ UNCHANGED <<self, asyncVars>>

\* r.expectErr(message)
CallExpectErr ==
    /\ self # 0
    /\ \E m \in Msgs :
         Done("expectErr", self, m,
              IF IsOk(heap, self) THEN Ok_expectErr(heap, self, m)
                                  ELSE Err_expectErr(heap, self, m))
    /\ UNCHANGED <<self, asyncVars>>

\* The receiver of the next call: a Result a call returned is the one the
\* caller goes on with, as in r.map(f).unwrap().
NextSelf(o) ==
    IF o.kind = "return" /\ o.val.t = "ref" THEN o.val.id ELSE self

\* The call `op` on the receiver with arguments `arg`, completing as `o`,
\* provided the objects it makes fit.
Combinator(op, arg, o) ==
    /\ Len(o.heap) <= MaxObjects
    /\ Done(op, self, arg, o)
    /\ self' = NextSelf(o)
    /\ UNCHANGED asyncVars

\* r.inspect(f)
CallInspect ==
    /\ self # 0
    /\ \E f \in Mappers :
         Combinator("inspect", [f |-> f],
                    IF IsOk(heap, self) THEN Ok_inspect(heap, self, f)
                                        ELSE Err_inspect(heap, self, f))

\* r.inspectErr(f)
CallInspectErr ==
    /\ self # 0
    /\ \E f \in Mappers :
         Combinator("inspectErr", [f |-> f],
                    IF IsOk(heap, self) THEN Ok_inspectErr(heap, self, f)
                                        ELSE Err_inspectErr(heap, self, f))

\* r.map(mapper)
CallMap ==
    /\ self # 0
    /\ \E mapper \in Mappers :
         Combinator("map", [mapper |-> mapper],
                    IF IsOk(heap, self) THEN Ok_map(heap, self, mapper)
                                        ELSE Err_map(heap, self, mapper))

\* r.mapOr(def, mapper)
CallMapOr ==
    /\ self # 0
    /\ \E def \in Defaults, mapper \in Mappers :
         Combinator("mapOr", [def |-> def, mapper |-> mapper],
                    IF IsOk(heap, self) THEN Ok_mapOr(heap, self, def, mapper)
                                        ELSE Err_mapOr(heap, self, def, mapper))

\* r.mapOrElse(errMapper, mapper)
CallMapOrElse ==
    /\ self # 0
    /\ \E errMapper \in Mappers, mapper \in Mappers :
         Combinator("mapOrElse", [errMapper |-> errMapper, mapper |-> mapper],
                    IF IsOk(heap, self)
                    THEN Ok_mapOrElse(heap, self, errMapper, mapper)
                    ELSE Err_mapOrElse(heap, self, errMapper, mapper))

\* r.mapErr(mapper)
CallMapErr ==
    /\ self # 0
    /\ \E mapper \in Mappers :
         Combinator("mapErr", [mapper |-> mapper],
                    IF IsOk(heap, self) THEN Ok_mapErr(heap, self, mapper)
                                        ELSE Err_mapErr(heap, self, mapper))

\* r.or(other)
CallOr ==
    /\ self # 0
    /\ \E i \in 1..Len(heap) :
         Combinator("or", [other |-> Ref(i)],
                    IF IsOk(heap, self) THEN Ok_or(heap, self, Ref(i))
                                        ELSE Err_or(heap, self, Ref(i)))

\* r.orElse(op)
CallOrElse ==
    /\ self # 0
    /\ \E op \in ResultOps(heap) :
         Combinator("orElse", [op |-> op],
                    IF IsOk(heap, self) THEN Ok_orElse(heap, self, op)
                                        ELSE Err_orElse(heap, self, op))

\* r.and(other)
CallAnd ==
    /\ self # 0
    /\ \E i \in 1..Len(heap) :
         Combinator("and", [other |-> Ref(i)],
                    IF IsOk(heap, self) THEN Ok_and(heap, self, Ref(i))
                                        ELSE Err_and(heap, self, Ref(i)))

\* r.andThen(op)
CallAndThen ==
    /\ self # 0
    /\ \E op \in ResultOps(heap) :
         Combinator("andThen", [op |-> op],
                    IF IsOk(heap, self) THEN Ok_andThen(heap, self, op)
                                        ELSE Err_andThen(heap, self, op))

\* r.unwrapOrElse(op)
CallUnwrapOrElse ==
    /\ self # 0
    /\ \E op \in Mappers :
         Combinator("unwrapOrElse", [op |-> op],
                    IF IsOk(heap, self) THEN Ok_unwrapOrElse(heap, self, op)
                                        ELSE Err_unwrapOrElse(heap, self, op))

Next ==
    \/ CallOk
    \/ CallErr
    \/ CallTrys
    \/ CallIsOk
    \/ CallIsErr
    \/ CallUnwrap
    \/ CallUnwrapOr
    \/ CallExpect
    \/ CallUnwrapErr
    \/ CallExpectErr
    \/ CallInspect
    \/ CallInspectErr
    \/ CallMap
    \/ CallMapOr
    \/ CallMapOrElse
    \/ CallMapErr
    \/ CallOr
    \/ CallOrElse
    \/ CallAnd
    \/ CallAndThen
    \/ CallUnwrapOrElse

Spec == Init /\ [][Next]_vars

(* ------------------------------- tryp ---------------------------------- *)
(* tryp(promise) returns promise.then(onFulfilled).catch(onRejected).      *)
(* `promise` is the caller's promise, `thenPromise` the one `then` makes   *)
(* and `catchPromise` the one `catch` makes, which tryp returns.  A        *)
(* reaction runs as a job of its own once the promise before it settled.   *)

syncVars == <<self, last>>

Settled(p) == p.state \in {"fulfilled", "rejected"}

\* How a promise made by then/catch settles from the completion of its handler.
SettleFrom(o) == IF o.kind = "return" THEN Fulfilled(o.val) ELSE Rejected(o.val)

\* const future = tryp(p), with p pending or settled already
CallTryp ==
    /\ CanCreate
    /\ catchPromise.state # "pending"
    /\ \E p \in {Pending} \cup {Fulfilled(v) : v \in Prim}
                         \cup {Rejected(r) : r \in Prim} :
         promise' = p
    /\ thenPromise' = Pending
    /\ catchPromise' = Pending
    /\ ran' = {}
    /\ UNCHANGED <<heap, syncVars>>

\* The caller's computation completes.
Fulfill ==
    /\ promise.state = "pending"
    /\ \E v \in Prim : promise' = Fulfilled(v)
    /\ UNCHANGED <<heap, thenPromise, catchPromise, ran, syncVars>>

\* The caller's computation fails.
Reject ==
    /\ promise.state = "pending"
    /\ \E r \in Prim : promise' = Rejected(r)
    /\ UNCHANGED <<heap, thenPromise, catchPromise, ran, syncVars>>

\* The job of .then(onFulfilled): a rejection passes through.
ThenReaction ==
    /\ Settled(promise)
    /\ thenPromise.state = "pending"
    /\ IF promise.state = "fulfilled"
       THEN LET o == tryp_onFulfilled(heap, promise.val) IN
              /\ heap' = o.heap
              /\ thenPromise' = SettleFrom(o)
              /\ ran' = ran \cup {"onFulfilled"}
       ELSE /\ thenPromise' = Rejected(promise.val)
            /\ UNCHANGED <<heap, ran>>
    /\ UNCHANGED <<promise, catchPromise, syncVars>>

\* The job of .catch(onRejected): a fulfilment passes through.
CatchReaction ==
    /\ Settled(thenPromise)
    /\ catchPromise.state = "pending"
    /\ IF thenPromise.state = "rejected"
       THEN LET o == tryp_onRejected(heap, thenPromise.val) IN
              /\ heap' = o.heap
              /\ catchPromise' = SettleFrom(o)
              /\ ran' = ran \cup {"onRejected"}
       ELSE /\ catchPromise' = Fulfilled(thenPromise.val)
            /\ UNCHANGED <<heap, ran>>
    /\ UNCHANGED <<promise, thenPromise, syncVars>>

NextTryp ==
    \/ CallTryp
    \/ Fulfill
    \/ Reject
    \/ ThenReaction
    \/ CatchReaction

SpecTryp == Init /\ [][NextTryp]_vars

\* The host runs every reaction job that is ready: the job queue is drained,
\* so a reaction that stays enabled is taken.
FairSpecTryp ==
    SpecTryp /\ WF_vars(ThenReaction) /\ WF_vars(CatchReaction)

(* ------------------------------ properties ----------------------------- *)

\* The receiver of the last call, and what it holds.
Receiver == heap[last.this]
OnOk(op) == last.op = op /\ Receiver.tag = "Ok"
OnErr(op) == last.op = op /\ Receiver.tag = "Err"

\* The object a returned or thrown reference points to.
Target(v) == heap[v.id]

\* C1: expectErr(m) on Ok(v) throws a fault whose message is "m: v" and
\* returns nothing.
C1_ExpectErrMessageHasValue ==
    OnOk("expectErr") =>
        /\ last.kind = "throw"
        /\ last.val = ErrorObj(last.arg.s \o ": " \o JsString(Receiver.value))

\* C2: expect(m) on Err(e) throws a fault whose message is exactly m, with
\* nothing of e appended, and returns nothing.
C2_ExpectMessageVerbatim ==
    OnErr("expect") =>
        /\ last.kind = "throw"
        /\ last.val = ErrorObj(last.arg.s)

\* C3: unwrapErr() on Ok(v) throws v itself, neither wrapped nor turned into
\* a message; on Err(e) it returns e and throws nothing.
C3_UnwrapErrThrowsValue ==
    /\ OnOk("unwrapErr") => last.kind = "throw" /\ last.val = Receiver.value
    /\ OnErr("unwrapErr") => last.kind = "return" /\ last.val = Receiver.error

C3_Witness ==
    /\ OnOk("unwrapErr")
    /\ Receiver.value = Str("X")
    /\ last.kind = "throw"
    /\ last.val = Str("X")

\* C4: unwrap() on Err(e) throws the generic error with the fixed message
\* "Attempted to unwrap an Err value.", the same for every e.
C4_UnwrapGenericFault ==
    OnErr("unwrap") =>
        /\ last.kind = "throw"
        /\ last.val = ErrorObj("Attempted to unwrap an Err value.")

C4_Witness ==
    /\ OnErr("unwrap")
    /\ Receiver.error = Str("X")
    /\ last.kind = "throw"
    /\ last.val.t = "Error"

\* C5: the fault unwrap() throws on Err(e) carries e: it is e, or an error
\* whose message is the text of e.
C5_UnwrapFaultCarriesError ==
    OnErr("unwrap") =>
        /\ last.kind = "throw"
        /\ \/ last.val = Receiver.error
           \/ last.val = ErrorObj(JsString(Receiver.error))

\* C6: the fault expect(m) throws on Err(e) has the message "m: e".
C6_ExpectMessageHasError ==
    OnErr("expect") =>
        /\ last.kind = "throw"
        /\ last.val = ErrorObj(last.arg.s \o ": " \o JsString(Receiver.error))

\* C7: when fn returns v, falsy or undefined included, trys(fn) returns an Ok
\* whose value is exactly v.
C7_TrysKeepsReturnValue ==
    (last.op = "trys" /\ last.arg.kind = "return") =>
        /\ last.kind = "return"
        /\ last.val.t = "ref"
        /\ Target(last.val) = [tag |-> "Ok", value |-> last.arg.val]

C7_Witness ==
    /\ last.op = "trys"
    /\ last.arg = [kind |-> "return", val |-> Num(0)]
    /\ last.kind = "return"
    /\ Target(last.val) = [tag |-> "Ok", value |-> Num(0)]

\* C8: when fn throws p, of any type, trys(fn) returns an Err whose error is
\* exactly p; trys itself never throws.
C8_TrysCapturesThrown ==
    last.op = "trys" =>
        /\ last.kind = "return"
        /\ last.arg.kind = "throw" =>
              /\ last.val.t = "ref"
              /\ Target(last.val) = [tag |-> "Err", error |-> last.arg.val]

C8_Witness ==
    /\ last.op = "trys"
    /\ last.arg = [kind |-> "throw", val |-> Str("")]
    /\ last.kind = "return"
    /\ Target(last.val) = [tag |-> "Err", error |-> Str("")]

\* C9: the promise tryp returns is never rejected: once the caller's promise
\* is fulfilled with v it is fulfilled with an Ok holding v, once the caller's
\* promise is rejected with r it is fulfilled with an Err holding r.
C9_TrypNeverRejects ==
    /\ catchPromise.state # "rejected"
    /\ catchPromise.state = "fulfilled" =>
          /\ catchPromise.val.t = "ref"
          /\ promise.state = "fulfilled" =>
                Target(catchPromise.val) = [tag |-> "Ok", value |-> promise.val]
          /\ promise.state = "rejected" =>
                Target(catchPromise.val) = [tag |-> "Err", error |-> promise.val]
          /\ Settled(promise)

C9_Witness ==
    /\ promise = Rejected(Num(0))
    /\ catchPromise.state = "fulfilled"
    /\ Target(catchPromise.val) = [tag |-> "Err", error |-> Num(0)]

\* C10: ok(v) returns an Ok whose value is exactly v and err(e) an Err whose
\* error is exactly e, falsy payloads included; with the argument left out the
\* payload is undefined.  Neither throws.
C10_ConstructorsKeepPayload ==
    /\ last.op = "ok" =>
          /\ last.kind = "return"
          /\ last.val.t = "ref"
          /\ Target(last.val) =
                [tag |-> "Ok",
                 value |-> IF last.arg = Omitted THEN Undefined ELSE last.arg]
    /\ last.op = "err" =>
          /\ last.kind = "return"
          /\ last.val.t = "ref"
          /\ Target(last.val) =
                [tag |-> "Err",
                 error |-> IF last.arg = Omitted THEN Undefined ELSE last.arg]

C10_Witness ==
    /\ last.op = "ok"
    /\ last.arg = Bool(FALSE)
    /\ last.kind = "return"
    /\ Target(last.val) = [tag |-> "Ok", value |-> Bool(FALSE)]

\* The call noted first among the callbacks the last call invoked.
NoCalls == last.calls = <<>>
OneCall(role, x) ==
    /\ Len(last.calls) = 1
    /\ last.calls[1].role = role
    /\ last.calls[1].arg = x

\* The last call completed as its one callback did.
AsCallback == last.kind = last.calls[1].kind /\ last.val = last.calls[1].val

ReturnedSelf == last.kind = "return" /\ last.val = Ref(last.this)

\* C11: where the variant does not match, the operation returns the receiver
\* itself and calls nothing: map, and, andThen on an Err; mapErr, or, orElse
\* on an Ok.
C11_ShortCircuitReturnsSelf ==
    /\ (OnErr("map") \/ OnErr("and") \/ OnErr("andThen")) =>
          ReturnedSelf /\ NoCalls
    /\ (OnOk("mapErr") \/ OnOk("or") \/ OnOk("orElse")) =>
          ReturnedSelf /\ NoCalls

C11_Witness ==
    /\ OnErr("map")
    /\ last.arg.mapper = [kind |-> "id"]
    /\ Len(heap) = 1
    /\ ReturnedSelf

\* C12: every Result is an Ok or an Err; isOk() tells whether it is an Ok and
\* isErr() whether it is an Err, so the two answers are opposite, true for
\* isOk on what ok made and for isErr on what err made; and the variant of a
\* Result, hence both answers, never changes.
C12_ExactlyOneVariant ==
    /\ [](/\ \A i \in 1..Len(heap) : heap[i].tag \in {"Ok", "Err"}
          /\ last.op = "isOk" =>
                last.kind = "return" /\ last.val = Bool(Receiver.tag = "Ok")
          /\ last.op = "isErr" =>
                last.kind = "return" /\ last.val = Bool(Receiver.tag # "Ok")
          /\ last.op \in {"ok", "err"} =>
                Target(last.val).tag = (IF last.op = "ok" THEN "Ok" ELSE "Err"))
    /\ [][\A i \in 1..Len(heap) :
             i <= Len(heap') /\ heap'[i].tag = heap[i].tag]_vars

C12_Witness ==
    /\ OnErr("isOk")
    /\ last.val = Bool(FALSE)
    /\ Len(heap) = 2
    /\ heap[1].tag = "Ok"

\* C13: on Ok(v), mapOr(def, f) and mapOrElse(g, f) call f once with v, do
\* not call g, and complete as f(v) does; on Err(e), mapOr returns def and
\* calls nothing, mapOrElse calls g once with e, does not call f, and
\* completes as g(e) does.
C13_MapOrCallsOneBranch ==
    /\ (OnOk("mapOr") \/ OnOk("mapOrElse")) =>
          /\ OneCall("mapper", Receiver.value)
          /\ AsCallback
          /\ last.arg.mapper.kind = "id" =>
                last.kind = "return" /\ last.val = Receiver.value
          /\ last.arg.mapper.kind = "const" =>
                last.kind = "return" /\ last.val = last.arg.mapper.val
    /\ OnErr("mapOr") =>
          /\ NoCalls
          /\ last.kind = "return"
          /\ last.val = last.arg.def
    /\ OnErr("mapOrElse") =>
          /\ OneCall("errMapper", Receiver.error)
          /\ AsCallback
          /\ last.arg.errMapper.kind = "id" =>
                last.kind = "return" /\ last.val = Receiver.error
          /\ last.arg.errMapper.kind = "const" =>
                last.kind = "return" /\ last.val = last.arg.errMapper.val

C13_Witness ==
    /\ OnErr("mapOrElse")
    /\ Receiver.error = Str("X")
    /\ last.arg.errMapper = [kind |-> "id"]
    /\ last.arg.mapper = [kind |-> "const", val |-> Num(42)]
    /\ last.kind = "return"
    /\ last.val = Str("X")

\* C14: while the caller's promise is pending the promise tryp returned is
\* pending; once settled it keeps its state and value (until a later call of
\* tryp makes a new one); once the caller's promise has settled the returned
\* promise settles in the end; and when it has settled, exactly one handler
\* has run, onFulfilled after a fulfilment and onRejected after a rejection.
C14_SettlesAfterAndOnce ==
    /\ [](promise.state = "pending" => catchPromise.state = "pending")
    /\ [](Settled(catchPromise) =>
            /\ Settled(promise)
            /\ ran = (IF promise.state = "fulfilled" THEN {"onFulfilled"}
                                                     ELSE {"onRejected"}))
    /\ [][Settled(catchPromise) =>
            \/ catchPromise' = catchPromise
            \/ catchPromise' = Pending /\ thenPromise' = Pending]_vars
    /\ (Settled(promise) ~> Settled(catchPromise))

C14_Witness ==
    /\ promise = Fulfilled(Num(0))
    /\ thenPromise.state = "fulfilled"
    /\ catchPromise = thenPromise
    /\ ran = {"onFulfilled"}
    /\ Len(heap) = 2

\* C15: no call changes a Result that exists: every object keeps its variant
\* and its payload through every call, throwing ones included; map on an Ok
\* and mapErr on an Err return a Result other than the receiver, holding the
\* mapped payload.
C15_ReceiverUnchanged ==
    /\ [][\A i \in 1..Len(heap) : i <= Len(heap') /\ heap'[i] = heap[i]]_vars
    /\ []((OnOk("map") /\ last.kind = "return") =>
            /\ last.val # Ref(last.this)
            /\ Target(last.val) = [tag |-> "Ok", value |-> last.calls[1].val])
    /\ []((OnErr("mapErr") /\ last.kind = "return") =>
            /\ last.val # Ref(last.this)
            /\ Target(last.val) = [tag |-> "Err", error |-> last.calls[1].val])

C15_Witness ==
    /\ OnOk("map")
    /\ last.arg.mapper = [kind |-> "const", val |-> Num(42)]
    /\ Receiver = [tag |-> "Ok", value |-> Num(0)]
    /\ Target(last.val) = [tag |-> "Ok", value |-> Num(42)]

\* C16: when a callback a combinator invoked throws x, the combinator throws
\* that same x and returns nothing.
C16_CallbackFaultPropagates ==
    \A k \in 1..Len(last.calls) :
        last.calls[k].kind = "throw" =>
            /\ last.op \in {"inspect", "inspectErr", "map", "mapOr", "mapOrElse",
                             "mapErr", "orElse", "andThen", "unwrapOrElse"}
            /\ last.kind = "throw"
            /\ last.val = last.calls[k].val

C16_Witness ==
    /\ OnErr("mapErr")
    /\ last.arg.mapper = [kind |-> "throw", val |-> Str("X")]
    /\ last.kind = "throw"
    /\ last.val = Str("X")
    /\ Len(heap) = 1

\* C17: ok(v).andThen(f) completes exactly as f(v) does, f being called once
\* with v; with f = x => ok(x) the result is an Ok holding v.
C17_AndThenLeftIdentity ==
    OnOk("andThen") =>
        /\ OneCall("op", Receiver.value)
        /\ AsCallback
        /\ last.arg.op.kind = "ok" =>
              /\ last.kind = "return"
              /\ Target(last.val) = [tag |-> "Ok", value |-> Receiver.value]
        /\ last.arg.op.kind = "err" =>
              /\ last.kind = "return"
              /\ Target(last.val) = [tag |-> "Err", error |-> Receiver.value]
        /\ last.arg.op.kind = "ref" =>
              last.kind = "return" /\ last.val = Ref(last.arg.op.id)

C17_Witness ==
    /\ OnOk("andThen")
    /\ last.arg.op = [kind |-> "ok"]
    /\ Receiver.value = Str("")
    /\ last.val = Ref(2)
    /\ Target(last.val) = [tag |-> "Ok", value |-> Str("")]

\* C18: the fault of a failing message accessor is an error object with a
\* message, never a Result: expect(m) on an Err throws the kind of object
\* that expectErr(m) on an Ok and unwrap() on an Err throw.
C18_ExpectThrowsErrorObject ==
    (OnErr("expect") \/ OnOk("expectErr") \/ OnErr("unwrap")) =>
        /\ last.kind = "throw"
        /\ last.val.t = "Error"

====
